---- MODULE Spec2Model ----
(***************************************************************************)
(* Model of the computesdk/benchmarks core:                                *)
(*   - parseSseResult (src/src/table.ts): the event-stream decoder and     *)
(*     result assembler, checked under SpecSse;                            *)
(*   - runBenchmark / runIteration / withTimeout (src/src/run.ts): the     *)
(*     iteration orchestrator, checked under Spec;                         *)
(*   - withTimeout around the commands of an ISLO sandbox (run.ts and      *)
(*     table.ts), checked under SpecStep;                                  *)
(*   - computeCompositeScores / sortByCompositeScore (src/src/scoring.ts), *)
(*     checked under SpecScore;                                            *)
(*   - scoreMetric (src/src/scoring.ts), checked under SpecMetric, and     *)
(*     computeStats (src/src/run.ts), checked under SpecStats.             *)
(* Text is a sequence of one-character strings; "LF", "CR" and "TAB" stand *)
(* for the control characters, "U+E9" for a two-byte character and         *)
(* "U+FFFD" for the replacement character.  A nullable value is a sequence *)
(* of length 0 (null) or 1 (the value).                                    *)
(***************************************************************************)
EXTENDS Integers, Sequences, FiniteSets, TLC

VARIABLES
    \* ---- parseSseResult (table.ts 352-453)
    stream,      \* the bytes the response body will deliver, in order
    pos,         \* how many of them reader.read() has delivered so far
    p,           \* the locals of parseSseResult (see InitParser)
    ssePc,       \* "reading" | "done"
    sseResult,   \* what parseSseResult returned or threw
    \* ---- runBenchmark / runIteration (run.ts 149-302)
    config,      \* iterations, workload commands, missing credentials: fixed per run
    compute,     \* "made" once config.createCompute() was called, "none" before
    pc,          \* the await runBenchmark is suspended at, or "init" / "done"
    i,           \* runBenchmark's loop counter
    results,     \* runBenchmark's results: TimingResult[]
    sandbox,     \* runIteration's sandbox, null until create() resolved in time
    start,       \* runIteration's start
    ttiMs,       \* runIteration's ttiMs
    workloadStart, \* runIteration's workloadStart
    pending,     \* the completion of the try block, held while finally runs
    benchResult, \* what runBenchmark returned, null before
    now,         \* performance.now()
    \* ---- the provider, and the record of what was asked of it
    abandoned,   \* operations a wrapper timed out that are still running
    yielded,     \* per iteration, whether create() yielded a sandbox: "no",
                 \* "intime" (runIteration holds it) or "late" (after the deadline)
    destroyCalls, \* per iteration, how often destroy() was invoked
    createCalls, \* how often create() was invoked in this run
    log,         \* the current iteration's steps: <<step, event, message>>, event
                 \* "issue" or how the awaited race settled
    faults,      \* how many operations have failed or timed out in this run
    \* ---- withTimeout around the command steps (run.ts 240-284, 304-309)
    workloadTimeoutMs, \* runIteration's workloadTimeoutMs
    calls,       \* the withTimeout calls made so far, one record per call
    \* ---- computeCompositeScores / sortByCompositeScore (scoring.ts)
    providers,   \* the BenchmarkResult[] handed to the scoring functions
    ranked,      \* what sortByCompositeScore returned, null before
    scorePc,     \* "results" | "scored"
    \* ---- scoreMetric (scoring.ts 30-32) and computeStats (run.ts 132-147)
    metricInput, \* the valueMs scoreMetric is called with
    metricValue, \* what scoreMetric returned, null before
    timings,     \* the values computeStats is called with
    timingStats  \* what computeStats returned, null before

sseVars == <<stream, pos, p, ssePc, sseResult>>

stepVars == <<workloadTimeoutMs, calls>>

scoreVars == <<providers, ranked, scorePc>>

fnVars == <<metricInput, metricValue, timings, timingStats>>

runVars == <<config, compute, pc, i, results, sandbox, start, ttiMs, workloadStart, pending,
             benchResult, now, abandoned, yielded, destroyCalls, createCalls, log,
             faults>>

vars == <<stream, pos, p, ssePc, sseResult, config, compute, pc, i, results, sandbox, start,
          ttiMs, workloadStart, pending, benchResult, now, abandoned, yielded,
          destroyCalls, createCalls, log, faults, workloadTimeoutMs, calls, providers, ranked,
          scorePc, metricInput, metricValue, timings, timingStats>>

----------------------------------------------------------------------------
(* Text helpers                                                            *)

None == <<>>
Some(x) == <<x>>

\* JavaScript truthiness of a string-or-null: null and '' are falsy.
Truthy(opt) == opt # None /\ opt[1] # <<>>

\* The white space String.prototype.trim / trimStart / parseInt skip.
WhiteSpace == {" ", "TAB", "LF", "CR"}

Digits == {"0", "1", "2", "3", "4", "5", "6", "7", "8", "9"}

DigitVal(c) ==
    CASE c = "0" -> 0 [] c = "1" -> 1 [] c = "2" -> 2 [] c = "3" -> 3
      [] c = "4" -> 4 [] c = "5" -> 5 [] c = "6" -> 6 [] c = "7" -> 7
      [] c = "8" -> 8 [] c = "9" -> 9

RECURSIVE trimStart(_)
trimStart(s) ==
    IF s # <<>> /\ Head(s) \in WhiteSpace THEN trimStart(Tail(s)) ELSE s

RECURSIVE trimEnd(_)
trimEnd(s) ==
    IF s # <<>> /\ s[Len(s)] \in WhiteSpace
    THEN trimEnd(SubSeq(s, 1, Len(s) - 1))
    ELSE s

trim(s) == trimEnd(trimStart(s))

startsWith(s, prefix) ==
    Len(s) >= Len(prefix) /\ SubSeq(s, 1, Len(prefix)) = prefix

\* s.slice(n) for 0 <= n
slice(s, n) == SubSeq(s, n + 1, Len(s))

RECURSIVE join(_, _)
join(parts, sep) ==
    IF parts = <<>> THEN <<>>
    ELSE IF Len(parts) = 1 THEN parts[1]
    ELSE parts[1] \o sep \o join(Tail(parts), sep)

RECURSIVE indexOf(_, _, _)
\* 1-based position of the first c in s at or after from, 0 when there is none
indexOf(s, c, from) ==
    IF from > Len(s) THEN 0
    ELSE IF s[from] = c THEN from
    ELSE indexOf(s, c, from + 1)

RECURSIVE digitsValue(_, _)
\* the value of the longest run of digits s starts with, after acc
digitsValue(s, acc) ==
    IF s # <<>> /\ Head(s) \in Digits
    THEN digitsValue(Tail(s), 10 * acc + DigitVal(Head(s)))
    ELSE acc

\* parseInt(text, 10) followed by Number.isInteger: the integer, or None for NaN.
parseInt(text) ==
    LET t == trimStart(text)
        neg == t # <<>> /\ Head(t) = "-"
        u == IF t # <<>> /\ Head(t) \in {"-", "+"} THEN Tail(t) ELSE t
    IN  IF u # <<>> /\ Head(u) \in Digits
        THEN Some(IF neg THEN 0 - digitsValue(u, 0) ELSE digitsValue(u, 0))
        ELSE None

----------------------------------------------------------------------------
(* TextDecoder (utf-8): table.ts 354, 425, 438                             *)

\* Bytes of the two-byte character U+E9: a lead byte and a continuation byte.
LeadByte == "C3"
ContByte == "A9"

\* what the byte at position k of `bytes` adds to the decoded text: a lead byte
\* waits for its continuation byte, and is malformed before any other byte
decodedAt(bytes, k) ==
    IF bytes[k] = LeadByte
    THEN IF k = Len(bytes) \/ bytes[k + 1] = ContByte THEN <<>> ELSE <<"U+FFFD">>
    ELSE IF bytes[k] = ContByte
    THEN IF k > 1 /\ bytes[k - 1] = LeadByte THEN <<"U+E9">> ELSE <<"U+FFFD">>
    ELSE <<bytes[k]>>

RECURSIVE concatRange(_, _, _)
\* pieces[lo] \o ... \o pieces[hi]
concatRange(pieces, lo, hi) ==
    IF lo > hi THEN <<>>
    ELSE IF lo = hi THEN pieces[lo]
    ELSE LET mid == (lo + hi) \div 2
         IN  concatRange(pieces, lo, mid) \o concatRange(pieces, mid + 1, hi)

\* decoder.decode(bytes, {stream: true}) with `pend` the bytes of an incomplete
\* character carried from the previous call: [text, pend].
decodeBytes(pend, bytes) ==
    LET carried == pend \o bytes
        pieces == [k \in 1..Len(carried) |-> decodedAt(carried, k)]
    IN  [text |-> concatRange(pieces, 1, Len(carried)),
         pend |-> IF carried # <<>> /\ carried[Len(carried)] = LeadByte
                  THEN <<LeadByte>> ELSE <<>>]

\* decoder.decode(): the end-of-stream flush of an incomplete character.
decodeFlush(pend) == IF pend = <<>> THEN <<>> ELSE <<"U+FFFD">>

\* A decoder called without {stream: true}: every call flushes.
decodeChunkNoStream(pend, bytes) ==
    LET d == decodeBytes(<<>>, bytes)
    IN  [text |-> d.text \o decodeFlush(d.pend), pend |-> <<>>]

\* table.ts 425: decoder.decode(value, { stream: true })
decodeChunk(pend, bytes) == decodeBytes(pend, bytes)

----------------------------------------------------------------------------
(* parseSseResult: table.ts 352-453                                        *)

sEvent == <<"e", "v", "e", "n", "t", ":">>
sData == <<"d", "a", "t", "a", ":">>
sMessage == <<"m", "e", "s", "s", "a", "g", "e">>
sStdout == <<"s", "t", "d", "o", "u", "t">>
sStderr == <<"s", "t", "d", "e", "r", "r">>
sExit == <<"e", "x", "i", "t">>
sError == <<"e", "r", "r", "o", "r">>

\* parseSseResult with exitCode initialised to 0 instead of null
InitParserZeroExit ==
    [ stdout |-> <<>>, stderr |-> <<>>, exitCode |-> Some(0), pendingError |-> None,
      buffer |-> <<>>, currentEvent |-> sMessage, dataLines |-> <<>>,
      pend |-> <<>>, lines |-> <<>>, events |-> <<>> ]

\* table.ts 356-363; `lines` and `events` record the calls of handleLine and the
\* events emitEvent folded, `pend` is the decoder's carried bytes.
InitParser ==
    [ stdout |-> <<>>, stderr |-> <<>>, exitCode |-> None, pendingError |-> None,
      buffer |-> <<>>, currentEvent |-> sMessage, dataLines |-> <<>>,
      pend |-> <<>>, lines |-> <<>>, events |-> <<>> ]

\* an emitEvent that keeps the event type of a record without data
emitEventKeepsType(q) ==
    IF q.dataLines = <<>>
    THEN q
    ELSE LET payload == join(q.dataLines, <<"LF">>)
             parsed == parseInt(payload)
             folded ==
               CASE q.currentEvent = sStdout -> [q EXCEPT !.stdout = @ \o payload]
                 [] q.currentEvent = sStderr -> [q EXCEPT !.stderr = @ \o payload]
                 [] q.currentEvent = sExit ->
                      IF parsed # None THEN [q EXCEPT !.exitCode = parsed] ELSE q
                 [] q.currentEvent = sError ->
                      [q EXCEPT !.pendingError =
                          IF Truthy(@) THEN Some(@[1] \o <<"LF">> \o payload)
                          ELSE Some(payload)]
                 [] OTHER -> q
         IN  [folded EXCEPT !.currentEvent = sMessage, !.dataLines = <<>>,
                            !.events = Append(@, [type |-> q.currentEvent,
                                                  payload |-> payload])]

\* an emitEvent that assigns whatever the exit payload parsed to
emitEventExitAlways(q) ==
    IF q.dataLines = <<>>
    THEN [q EXCEPT !.currentEvent = sMessage]
    ELSE LET payload == join(q.dataLines, <<"LF">>)
             parsed == parseInt(payload)
             folded ==
               CASE q.currentEvent = sStdout -> [q EXCEPT !.stdout = @ \o payload]
                 [] q.currentEvent = sStderr -> [q EXCEPT !.stderr = @ \o payload]
                 [] q.currentEvent = sExit -> [q EXCEPT !.exitCode = parsed]
                 [] q.currentEvent = sError ->
                      [q EXCEPT !.pendingError =
                          IF Truthy(@) THEN Some(@[1] \o <<"LF">> \o payload)
                          ELSE Some(payload)]
                 [] OTHER -> q
         IN  [folded EXCEPT !.currentEvent = sMessage, !.dataLines = <<>>,
                            !.events = Append(@, [type |-> q.currentEvent,
                                                  payload |-> payload])]

\* table.ts 365-395
emitEvent(q) ==
    IF q.dataLines = <<>>
    THEN [q EXCEPT !.currentEvent = sMessage]
    ELSE LET payload == join(q.dataLines, <<"LF">>)
             parsed == parseInt(payload)
             folded ==
               CASE q.currentEvent = sStdout -> [q EXCEPT !.stdout = @ \o payload]
                 [] q.currentEvent = sStderr -> [q EXCEPT !.stderr = @ \o payload]
                 [] q.currentEvent = sExit ->
                      IF parsed # None THEN [q EXCEPT !.exitCode = parsed] ELSE q
                 [] q.currentEvent = sError ->
                      [q EXCEPT !.pendingError =
                          IF Truthy(@) THEN Some(@[1] \o <<"LF">> \o payload)
                          ELSE Some(payload)]
                 [] OTHER -> q
         IN  [folded EXCEPT !.currentEvent = sMessage, !.dataLines = <<>>,
                            !.events = Append(@, [type |-> q.currentEvent,
                                                  payload |-> payload])]

\* table.ts 397-417
handleLine(q0, rawLine) ==
    LET line == IF rawLine # <<>> /\ rawLine[Len(rawLine)] = "CR"
                THEN SubSeq(rawLine, 1, Len(rawLine) - 1) ELSE rawLine
        q == [q0 EXCEPT !.lines = Append(@, line)]
    IN  IF line = <<>> THEN emitEvent(q)
        ELSE IF startsWith(line, <<":">>) THEN q
        ELSE IF startsWith(line, sEvent)
             THEN [q EXCEPT !.currentEvent = trim(slice(line, 6))]
        ELSE IF startsWith(line, sData)
             THEN [q EXCEPT !.dataLines = Append(@, trimStart(slice(line, 5)))]
        ELSE q

RECURSIVE splitLines(_)
\* table.ts 427-435: the inner loop, handing every complete line of the buffer
\* to handleLine and keeping the trailing partial line
splitLines(q) ==
    LET newlineIndex == indexOf(q.buffer, "LF", 1)
    IN  IF newlineIndex = 0 THEN q
        ELSE splitLines(handleLine(
                 [q EXCEPT !.buffer = SubSeq(@, newlineIndex + 1, Len(@))],
                 SubSeq(q.buffer, 1, newlineIndex - 1)))

\* table.ts 420-435: one reader.read() that delivered `chunk`
feedChunk(q, chunk) ==
    LET d == decodeChunk(q.pend, chunk)
    IN  splitLines([q EXCEPT !.buffer = @ \o d.text, !.pend = d.pend])

\* the end-of-stream without the flush of the partial last line
endOfStreamNoFlush(q) == emitEvent([q EXCEPT !.buffer = <<>>, !.pend = <<>>])

\* table.ts 438-442: the end-of-stream flush
endOfStream(q) ==
    LET b == q.buffer \o decodeFlush(q.pend)
        q1 == [q EXCEPT !.buffer = b, !.pend = <<>>]
    IN  emitEvent(IF Len(b) > 0 THEN handleLine(q1, b) ELSE q1)

sStreamError == <<"ISLO exec stream error: ">>
sNoExit == <<"ISLO exec stream ended without exit event">>

\* table.ts 444-452: what parseSseResult throws or returns
sseOutcome(q) ==
    IF Truthy(q.pendingError)
    THEN [kind |-> "throw", message |-> sStreamError \o q.pendingError[1],
          stdout |-> <<>>, stderr |-> <<>>, exitCode |-> None]
    ELSE IF q.exitCode = None
    THEN [kind |-> "throw", message |-> sNoExit, stdout |-> <<>>,
          stderr |-> <<>>, exitCode |-> None]
    ELSE [kind |-> "ok", message |-> <<>>, stdout |-> q.stdout,
          stderr |-> q.stderr, exitCode |-> q.exitCode]

\* parseSseResult on a body that delivers `bytes` in a single chunk
parseWhole(bytes) == endOfStream(feedChunk(InitParser, bytes))


----------------------------------------------------------------------------
(* The response bodies the model feeds to parseSseResult                   *)

SP == <<" ">>
LF == <<"LF">>
CRLF == <<"CR", "LF">>

\* event-stream records (and fragments of records) as the server writes them
Templates ==
    { \* several data lines, two leading spaces, a two-byte character
      sEvent \o SP \o sStdout \o LF \o sData \o SP \o SP \o <<"a">> \o LF
          \o sData \o <<LeadByte, ContByte>> \o LF \o LF,
      \* CR LF line ends, no space after the colon
      sEvent \o sStderr \o CRLF \o sData \o <<"b">> \o CRLF \o CRLF,
      sEvent \o SP \o sExit \o LF \o sData \o SP \o <<"0">> \o LF \o LF,
      sEvent \o sExit \o SP \o LF \o sData \o <<"7">> \o LF \o LF,
      \* an exit payload that is no integer
      sEvent \o SP \o sExit \o LF \o sData \o SP \o <<"x">> \o LF \o LF,
      sEvent \o SP \o sError \o LF \o sData \o SP \o <<"e">> \o LF \o LF,
      \* an error event with an empty payload
      sEvent \o SP \o sError \o LF \o sData \o LF \o LF,
      \* a typed record without data, then an untyped record
      sEvent \o SP \o sStdout \o LF \o LF \o sData \o SP \o <<"a">> \o LF \o LF,
      \* a comment and an unrecognized field
      <<":", "c">> \o LF \o <<"i", "d", ":", "1">> \o LF }

\* at most this many templates make a body
MaxRecords == 2
\* at most this many bytes are missing from the end of the body
MaxCut == 2
\* a read in the middle of the body delivers at most this many bytes
MaxChunk == 2

RECURSIVE Bodies(_)
Bodies(n) ==
    IF n = 0 THEN {<<>>}
    ELSE LET shorter == Bodies(n - 1)
         IN  shorter \cup {b \o t : b \in shorter, t \in Templates}

Streams ==
    {SubSeq(b, 1, Len(b) - c) : b \in Bodies(MaxRecords), c \in 0..MaxCut}


----------------------------------------------------------------------------
(* computeStats: run.ts 132-147.  A number is a fraction <<num, den>> in    *)
(* lowest terms, so that equal numbers are equal values.                   *)

RECURSIVE gcd(_, _)
gcd(a, b) == IF b = 0 THEN a ELSE gcd(b, a % b)

Frac(n, d) == LET g == gcd(n, d) IN <<n \div g, d \div g>>

RECURSIVE insertSorted(_, _)
insertSorted(sorted, v) ==
    IF sorted = <<>> THEN <<v>>
    ELSE IF v < Head(sorted) THEN <<v>> \o sorted
    ELSE <<Head(sorted)>> \o insertSorted(Tail(sorted), v)

\* a sort that leaves the values in the order they came in
sortAscendingNot(values) == values

RECURSIVE sortAscending(_)
\* [...values].sort((a, b) => a - b)
sortAscending(values) ==
    IF values = <<>> THEN <<>>
    ELSE insertSorted(sortAscending(Tail(values)), Head(values))

RECURSIVE sum(_)
sum(values) == IF values = <<>> THEN 0 ELSE Head(values) + sum(Tail(values))

ZeroStats == [min |-> Frac(0, 1), max |-> Frac(0, 1), median |-> Frac(0, 1),
              avg |-> Frac(0, 1)]

computeStats(values) ==
    IF Len(values) = 0 THEN ZeroStats
    ELSE LET sorted == sortAscending(values)
             mid == Len(sorted) \div 2      \* 0-based index
             median == IF Len(sorted) % 2 = 0
                       THEN Frac(sorted[mid] + sorted[mid + 1], 2)
                       ELSE Frac(sorted[mid + 1], 1)
         IN  [min |-> Frac(sorted[1], 1), max |-> Frac(sorted[Len(sorted)], 1),
              median |-> median, avg |-> Frac(sum(values), Len(values))]

----------------------------------------------------------------------------
(* Messages and samples: run.ts 189-193, 238-283, 311-342                  *)

mCreateTimeout == <<"Sandbox creation timed out">>
mDestroyTimeout == <<"Destroy timeout">>
mAllFailed == <<"All iterations failed">>
mMissing == <<"Missing: ">>

timeoutMessage(step) ==
    CASE step = "create" -> mCreateTimeout
      [] step = "smoke" -> <<"First command execution timed out">>
      [] step = "setup" -> <<"Workload setup timed out">>
      [] step = "workload" -> <<"Workload command timed out">>

failurePrefix(step) ==
    CASE step = "smoke" -> <<"First command execution failed">>
      [] step = "setup" -> <<"Workload setup failed">>
      [] step = "workload" -> <<"Workload command failed">>

\* run.ts 327: the longest detail a failure message carries
DetailMax == 220

\* a truncate that returns every value whole
truncateNever(value, maxLength) == value

\* run.ts 337-342
truncate(value, maxLength) ==
    IF Len(value) <= maxLength THEN value
    ELSE SubSeq(value, 1, maxLength - 3) \o <<".", ".", ".">>

\* run.ts 322-330: the message runCheckedCommand throws for a non-zero exit
checkedMessage(prefix, result) ==
    LET stderr == trim(result.stderr)
        stdout == trim(result.stdout)
        detail == IF stderr # <<>> THEN stderr ELSE stdout
    IN  IF detail # <<>>
        THEN prefix \o <<" (exit ", ToString(result.exitCode), "): ">>
                    \o truncate(detail, DetailMax)
        ELSE prefix \o <<" (exit ", ToString(result.exitCode), ")">>

\* a TimingResult; an absent field is None
Sample(tti, workload, total, err) ==
    [ttiMs |-> tti, workloadMs |-> workload, totalMs |-> total, error |-> err]

NoSample == Sample(0, None, None, None)

Return(sample) == [kind |-> "return", sample |-> sample, message |-> <<>>]
Throw(message) == [kind |-> "throw", sample |-> NoSample, message |-> message]
NoCompletion == [kind |-> "none", sample |-> NoSample, message |-> <<>>]

\* run.ts 189-193: the sample runBenchmark's catch block pushes
caughtSample(message) == Sample(0, None, None, Some(message))

\* run.ts 196 (and scoring.ts 39): r => !r.error
isSuccessful(r) == ~Truthy(r.error)

RECURSIVE successfulOf(_)
\* run.ts 196: results.filter(r => !r.error)
successfulOf(seq) ==
    IF seq = <<>> THEN <<>>
    ELSE IF isSuccessful(Head(seq)) THEN <<Head(seq)>> \o successfulOf(Tail(seq))
    ELSE successfulOf(Tail(seq))

ttiOf(seq) == [k \in 1..Len(seq) |-> seq[k].ttiMs]

RECURSIVE definedValues(_)
\* .map(r => r.x).filter(value => typeof value === 'number') on the options
definedValues(opts) ==
    IF opts = <<>> THEN <<>>
    ELSE Head(opts) \o definedValues(Tail(opts))

\* run.ts 196-224: the BenchmarkResult of a provider whose iterations ran
summarise(res) ==
    LET successful == successfulOf(res)
        workloadValues == definedValues([k \in 1..Len(successful) |-> successful[k].workloadMs])
        totalValues == definedValues([k \in 1..Len(successful) |-> successful[k].totalMs])
    IN  IF Len(successful) = 0
        THEN [iterations |-> res, skipped |-> TRUE, skipReason |-> mAllFailed,
              summary |-> [ttiMs |-> ZeroStats, workloadMs |-> None, totalMs |-> None]]
        ELSE [iterations |-> res, skipped |-> FALSE, skipReason |-> <<>>,
              summary |-> [ttiMs |-> computeStats(ttiOf(successful)),
                           workloadMs |-> IF Len(workloadValues) > 0
                                          THEN Some(computeStats(workloadValues)) ELSE None,
                           totalMs |-> IF Len(totalValues) > 0
                                       THEN Some(computeStats(totalValues)) ELSE None]]

\* run.ts 156-165: the BenchmarkResult of a provider whose credentials are missing
skippedMissing ==
    [iterations |-> <<>>, skipped |-> TRUE,
     skipReason |-> mMissing \o join(config.missingVars, <<",", " ">>),
     summary |-> [ttiMs |-> ZeroStats, workloadMs |-> None, totalMs |-> None]]


----------------------------------------------------------------------------
(* runBenchmark and runIteration: run.ts 149-302.  An action is one        *)
(* continuation: from the settlement of the awaited promise to the next    *)
(* await.  The helpers below map the state before to the state after.      *)

\* the largest iteration count of a run
MaxIterations == 2
\* the clock stops advancing here
MaxTime == 1
\* at most this many operations of a run fail or time out
MaxFaults == 2

Steps == {"create", "smoke", "setup", "workload", "destroy"}
CommandSteps == {"smoke", "setup", "workload"}

\* an output one character longer than the detail of a failure message
LongOutput == [k \in 1..(DetailMax + 1) |-> "x"]

\* what a provider's runCommand resolves with: success; a failure with both
\* outputs; one with a long stdout and a blank stderr; one without output
CommandResults ==
    { [exitCode |-> 0, stdout |-> <<"o", "k", "LF">>, stderr |-> <<>>],
      [exitCode |-> 1, stdout |-> <<"o", "u", "t">>, stderr |-> <<" ", "e", "r", "r", "LF">>],
      [exitCode |-> 2, stdout |-> LongOutput, stderr |-> <<"LF">>],
      [exitCode |-> 3, stdout |-> <<>>, stderr |-> <<>>] }

\* the messages of the errors a provider rejects with: new Error('') and another
RejectMessages == {<<>>, <<"boom">>}

\* the message of the error a command or a teardown of the run rejects with
TransportMessages == {<<"boom">>}

World ==
    [pc |-> pc, i |-> i, results |-> results, sandbox |-> sandbox, start |-> start,
     ttiMs |-> ttiMs, workloadStart |-> workloadStart, pending |-> pending,
     benchResult |-> benchResult, abandoned |-> abandoned, yielded |-> yielded,
     destroyCalls |-> destroyCalls, createCalls |-> createCalls, log |-> log]

SetWorldFields(w) ==
    /\ pc' = w.pc
    /\ i' = w.i
    /\ results' = w.results
    /\ sandbox' = w.sandbox
    /\ start' = w.start
    /\ ttiMs' = w.ttiMs
    /\ workloadStart' = w.workloadStart
    /\ pending' = w.pending
    /\ benchResult' = w.benchResult
    /\ abandoned' = w.abandoned
    /\ yielded' = w.yielded
    /\ destroyCalls' = w.destroyCalls
    /\ createCalls' = w.createCalls
    /\ log' = w.log

\* the state after is w (computed once)
SetWorld(w) == \E next \in {w} : SetWorldFields(next)

\* the provider is asked to run `step`
issue(w, step) == [w EXCEPT !.log = Append(@, <<step, "issue", <<>> >>)]

\* the race awaited at `step` settles: "ok", or "fail" or "timeout" with the
\* error's message; on a timeout the operation itself is left running (run.ts
\* 304-309 cancels nothing)
settle(w, step, how, message) ==
    [w EXCEPT !.log = Append(@, <<step, how, message>>),
              !.abandoned = IF how = "timeout" THEN @ \cup {<<w.i, step>>} ELSE @]

\* run.ts 175-179, 232-238: the loop body up to the await of create()
beginIteration(w, t) ==
    [w EXCEPT !.pc = "create", !.sandbox = None, !.start = t, !.ttiMs = 0,
              !.workloadStart = 0, !.pending = NoCompletion,
              !.createCalls = @ + 1,
              !.log = << <<"create", "issue", <<>> >> >>]

\* a loop whose catch block records no sample
completeDropsFailure(w, o, t) ==
    LET w1 == [w EXCEPT !.results = IF o.kind = "return" THEN Append(@, o.sample) ELSE @,
                        !.i = @ + 1]
    IN  IF w1.i < config.iterations
        THEN [w1 EXCEPT !.pc = "create", !.sandbox = None, !.start = t, !.ttiMs = 0,
                        !.workloadStart = 0, !.pending = NoCompletion,
                        !.createCalls = @ + 1,
                        !.log = << <<"create", "issue", <<>> >> >>]
        ELSE [w1 EXCEPT !.pc = "done", !.sandbox = None, !.start = 0, !.ttiMs = 0,
                        !.workloadStart = 0, !.pending = NoCompletion,
                        !.benchResult = Some(summarise(w1.results))]

\* run.ts 179-194, 196-224: runIteration has settled with completion o
complete(w, o, t) ==
    LET sample == IF o.kind = "return" THEN o.sample ELSE caughtSample(o.message)
        w1 == [w EXCEPT !.results = Append(@, sample), !.i = @ + 1]
    IN  IF w1.i < config.iterations
        THEN beginIteration(w1, t)
        ELSE [w1 EXCEPT !.pc = "done", !.sandbox = None, !.start = 0, !.ttiMs = 0,
                        !.workloadStart = 0, !.pending = NoCompletion,
                        !.benchResult = Some(summarise(w1.results))]

\* a finally block that tears down only after a successful try block
finallyOnSuccessOnly(w, o, t) ==
    IF w.sandbox # None /\ o.kind = "return"
    THEN [issue(w, "destroy") EXCEPT !.pc = "destroy", !.pending = o,
                                     !.destroyCalls[w.i + 1] = @ + 1]
    ELSE complete(w, o, t)

\* run.ts 290-296: the try block completed with o
finally(w, o, t) ==
    IF w.sandbox # None
    THEN [issue(w, "destroy") EXCEPT !.pc = "destroy", !.pending = o,
                                     !.destroyCalls[w.i + 1] = @ + 1]
    ELSE complete(w, o, t)

\* a finally block whose teardown failure replaces the held completion
afterDestroyUncaught(w, how, message, t) ==
    complete(settle(w, "destroy", how, message),
             IF how = "ok" THEN w.pending
             ELSE Throw(message), t)

\* run.ts 293-300: the teardown race settled; its failure is caught and dropped
afterDestroy(w, how, message, t) ==
    complete(settle(w, "destroy", how, message), w.pending, t)

\* a totalMs measured from the start of the workload
finishWorkloadFromWorkloadStart(w, t, t2) ==
    finally(w, Return(Sample(w.ttiMs, Some(t - w.workloadStart),
                             Some(t2 - w.workloadStart), None)), t2)

\* run.ts 286-289: both commands of the workload are done
finishWorkload(w, t, t2) ==
    finally(w, Return(Sample(w.ttiMs, Some(t - w.workloadStart), Some(t2 - w.start), None)), t2)

\* an iteration that ends after its first successful command
afterCommandNoWorkload(w, t, t2) ==
    finally([w EXCEPT !.ttiMs = t - w.start],
            Return(Sample(t - w.start, None, None, None)), t)

\* run.ts 251-284: the command awaited at w.pc succeeded at time t; t2 is the
\* clock at the continuation's second reading of it
afterCommand(w, t, t2) ==
    CASE w.pc = "smoke" ->
           LET w1 == [w EXCEPT !.ttiMs = t - w.start] IN
           IF ~config.setupCommand /\ ~config.command
           THEN finally(w1, Return(Sample(w1.ttiMs, None, None, None)), t)
           ELSE LET w2 == [w1 EXCEPT !.workloadStart = t2] IN
                IF config.setupCommand
                THEN [issue(w2, "setup") EXCEPT !.pc = "setup"]
                ELSE [issue(w2, "workload") EXCEPT !.pc = "workload"]
      [] w.pc = "setup" ->
           IF config.command
           THEN [issue(w, "workload") EXCEPT !.pc = "workload"]
           ELSE finishWorkload(w, t, t2)
      [] w.pc = "workload" -> finishWorkload(w, t, t2)

\* the continuation reads the clock a second time (run.ts 257, 287)
readsClockTwice(w) ==
    \/ w.pc = "smoke" /\ (config.setupCommand \/ config.command)
    \/ w.pc = "setup" /\ ~config.command
    \/ w.pc = "workload"

\* run.ts 156: the required variables the environment does not hold, none, one
\* or several
MissingChoices == {<<>>, << <<"K", "1">> >>, << <<"K", "1">>, <<"K", "2">> >>}

RunInit ==
    /\ config \in [iterations : 1..MaxIterations, setupCommand : BOOLEAN,
                   command : BOOLEAN, missingVars : MissingChoices]
    /\ compute = "none"
    /\ pc = "init"
    /\ i = 0
    /\ results = <<>>
    /\ sandbox = None
    /\ start = 0
    /\ ttiMs = 0
    /\ workloadStart = 0
    /\ pending = NoCompletion
    /\ benchResult = None
    /\ now = 0
    /\ abandoned = {}
    /\ yielded = [k \in 1..config.iterations |-> "no"]
    /\ destroyCalls = [k \in 1..config.iterations |-> 0]
    /\ createCalls = 0
    /\ log = <<>>
    /\ faults = 0

\* a runBenchmark that does not look at the credentials
StartUnchecked ==
    /\ pc = "init"
    /\ compute' = "made"
    /\ SetWorld(beginIteration(World, now))
    /\ UNCHANGED <<config, now, faults, sseVars, stepVars, scoreVars, fnVars>>

\* run.ts 153-179: runBenchmark is called
Start ==
    /\ pc = "init"
    /\ IF config.missingVars = <<>>
       THEN /\ compute' = "made"
            /\ SetWorld(beginIteration(World, now))
       ELSE /\ compute' = "none"
            /\ SetWorld([World EXCEPT !.pc = "done", !.benchResult = Some(skippedMissing)])
    /\ UNCHANGED <<config, now, faults, sseVars, stepVars, scoreVars, fnVars>>

\* run.ts 238-240: create() resolves before its deadline, d later
CreateResolve(d) ==
    /\ pc = "create"
    /\ now + d <= MaxTime
    /\ now' = now + d
    /\ SetWorld([issue(settle(World, "create", "ok", <<>>), "smoke") EXCEPT
                    !.pc = "smoke", !.sandbox = Some(i), !.yielded[i + 1] = "intime"])
    /\ UNCHANGED <<config, compute, faults, sseVars, stepVars, scoreVars, fnVars>>

\* run.ts 238: create() rejects
CreateReject(message, d) ==
    /\ pc = "create"
    /\ faults < MaxFaults
    /\ faults' = faults + 1
    /\ now + d <= MaxTime
    /\ now' = now + d
    /\ SetWorld(finally(settle(World, "create", "fail", message), Throw(message), now'))
    /\ UNCHANGED <<config, compute, sseVars, stepVars, scoreVars, fnVars>>

\* run.ts 238, 304-309: the creation deadline passes first
CreateTimeout(d) ==
    /\ pc = "create"
    /\ faults < MaxFaults
    /\ faults' = faults + 1
    /\ now + d <= MaxTime
    /\ now' = now + d
    /\ SetWorld(finally(settle(World, "create", "timeout", mCreateTimeout),
                        Throw(mCreateTimeout), now'))
    /\ UNCHANGED <<config, compute, sseVars, stepVars, scoreVars, fnVars>>

\* run.ts 240-284, 317-330: runCommand resolves with result; d and e are the
\* time the await took and the time between the continuation's clock readings
CommandResolve(result, d, e) ==
    /\ pc \in CommandSteps
    /\ now + d + e <= MaxTime
    /\ e > 0 => result.exitCode = 0 /\ readsClockTwice(World)
    /\ result.exitCode # 0 => faults < MaxFaults
    /\ faults' = IF result.exitCode # 0 THEN faults + 1 ELSE faults
    /\ now' = now + d + e
    /\ IF result.exitCode # 0
       THEN SetWorld(finally(settle(World, pc, "fail",
                                    checkedMessage(failurePrefix(pc), result)),
                             Throw(checkedMessage(failurePrefix(pc), result)), now + d))
       ELSE SetWorld(afterCommand(settle(World, pc, "ok", <<>>), now + d, now + d + e))
    /\ UNCHANGED <<config, compute, sseVars, stepVars, scoreVars, fnVars>>

\* run.ts 240-284, 317: runCommand rejects
CommandReject(message, d) ==
    /\ pc \in CommandSteps
    /\ faults < MaxFaults
    /\ faults' = faults + 1
    /\ now + d <= MaxTime
    /\ now' = now + d
    /\ SetWorld(finally(settle(World, pc, "fail", message), Throw(message), now'))
    /\ UNCHANGED <<config, compute, sseVars, stepVars, scoreVars, fnVars>>

\* run.ts 240-284, 304-309: the command's deadline passes first
CommandTimeout(d) ==
    /\ pc \in CommandSteps
    /\ faults < MaxFaults
    /\ faults' = faults + 1
    /\ now + d <= MaxTime
    /\ now' = now + d
    /\ SetWorld(finally(settle(World, pc, "timeout", timeoutMessage(pc)),
                        Throw(timeoutMessage(pc)), now'))
    /\ UNCHANGED <<config, compute, sseVars, stepVars, scoreVars, fnVars>>

\* run.ts 293-300: destroy() resolves, or rejects with message, or the 15 s
\* pass first
DestroySettle(how, message, d) ==
    /\ pc = "destroy"
    /\ how # "ok" => faults < MaxFaults
    /\ faults' = IF how = "ok" THEN faults ELSE faults + 1
    /\ now + d <= MaxTime
    /\ now' = now + d
    /\ how = "ok" => message = <<>>
    /\ how = "timeout" => message = mDestroyTimeout
    /\ how = "fail" => message \in TransportMessages
    /\ SetWorld(afterDestroy(World, how, message, now'))
    /\ UNCHANGED <<config, compute, sseVars, stepVars, scoreVars, fnVars>>

\* an operation whose wrapper timed out settles at the provider; a create()
\* that resolves has made a sandbox nobody holds
LateSettle(op, resolved) ==
    /\ op \in abandoned
    /\ abandoned' = abandoned \ {op}
    /\ yielded' = IF op[2] = "create" /\ resolved
                  THEN [yielded EXCEPT ![op[1] + 1] = "late"] ELSE yielded
    /\ UNCHANGED <<config, compute, pc, i, results, sandbox, start, ttiMs, workloadStart,
                   pending, benchResult, now, destroyCalls, createCalls, log, faults,
                   sseVars, stepVars, scoreVars, fnVars>>

----------------------------------------------------------------------------
(* withTimeout around the commands of an ISLO sandbox: run.ts 240-284,      *)
(* 304-335 and table.ts 272-350.  A call holds the race promise, its timer, *)
(* the abort timer of the request and the command; timers that are due      *)
(* earlier fire earlier, and of two timers due together the one set first.  *)

\* run.ts 247 and 244: the deadline of the smoke command, in ms and in seconds
SmokeTimeoutMs == 30000
SmokeTimeoutSeconds == 30

\* run.ts 233: workload?.timeoutMs ?? 300_000
DefaultWorkloadTimeoutMs == 300000

\* the values of workloadTimeoutMs a run is configured with
WorkloadTimeouts == {1, 1000, 1500, DefaultWorkloadTimeoutMs}

\* run.ts 333-335: Math.max(1, Math.ceil(ms / 1000))
msToSeconds(ms) ==
    LET ceil == (ms + 999) \div 1000 IN IF ceil > 1 THEN ceil ELSE 1

\* table.ts 274-275: Math.max(1, Math.ceil(timeoutSeconds * 1000))
abortDelayMs(timeoutSeconds) ==
    LET ms == timeoutSeconds * 1000 IN IF ms > 1 THEN ms ELSE 1

\* the command steps in the order runIteration awaits them
StepOrder == <<"smoke", "setup", "workload">>

Fulfilled(value) == [kind |-> "fulfilled", value |-> value]
Rejected(message) == [kind |-> "rejected", value |-> message]

\* table.ts 344
mExecTimedOut == <<"ISLO exec timed out">>

\* a race promise that every settlement of a contender overwrites
settleRaceLastWins(racePromise, outcome) == Some(outcome)

\* run.ts 305-308: Promise.race settles with the first contender to settle
settleRace(racePromise, outcome) ==
    IF racePromise = None THEN Some(outcome) ELSE racePromise

\* run.ts 240-249, 258-283, table.ts 272-280, 313-314: withTimeout is called
\* for `step`; the abort timer is set before the timer of withTimeout
newCall(step) ==
    LET seconds == IF step = "smoke" THEN SmokeTimeoutSeconds
                   ELSE msToSeconds(workloadTimeoutMs)
    IN  [step |-> step,
         ms |-> IF step = "smoke" THEN SmokeTimeoutMs ELSE workloadTimeoutMs,
         abortMs |-> abortDelayMs(seconds),
         message |-> timeoutMessage(step),
         timer |-> "armed", abort |-> "armed", op |-> "pending",
         opOutcome |-> None, race |-> None, first |-> "none"]

\* run.ts 317-330: how runCheckedCommand settles when runCommand resolved
checkedOutcome(step, result) ==
    IF result.exitCode # 0
    THEN Rejected(checkedMessage(failurePrefix(step), result))
    ELSE Fulfilled(<<>>)

\* the command of call c settles with outcome: table.ts 347-349 clears the
\* abort timer, and the race sees the settlement
opSettles(c, outcome) ==
    [c EXCEPT !.op = "settled", !.opOutcome = Some(outcome),
              !.abort = IF @ = "armed" THEN "cleared" ELSE @,
              !.race = settleRace(@, outcome),
              !.first = IF @ = "none" THEN "op" ELSE @]

\* run.ts 307: the timer of withTimeout fires
timerFires(c) ==
    [c EXCEPT !.timer = "fired",
              !.race = settleRace(@, Rejected(c.message)),
              !.first = IF @ = "none" THEN "timer" ELSE @]

\* run.ts 240, 261, 274: the next command step is awaited once the one before
\* has succeeded
StepCall ==
    /\ Len(calls) < Len(StepOrder)
    /\ calls # <<>> => calls[Len(calls)].race = Some(Fulfilled(<<>>))
    /\ calls' = Append(calls, newCall(StepOrder[Len(calls) + 1]))
    /\ UNCHANGED <<workloadTimeoutMs, sseVars, runVars, scoreVars, fnVars>>

\* table.ts 341, run.ts 317-330: the exec stream ends with a result
OpResolve(k, result) ==
    /\ calls[k].op = "pending" /\ calls[k].abort = "armed"
    /\ calls' = [calls EXCEPT ![k] = opSettles(@, checkedOutcome(@.step, result))]
    /\ UNCHANGED <<workloadTimeoutMs, sseVars, runVars, scoreVars, fnVars>>

\* table.ts 333-346: the request fails with an error of its own
OpReject(k, message) ==
    /\ calls[k].op = "pending" /\ calls[k].abort = "armed"
    /\ calls' = [calls EXCEPT ![k] = opSettles(@, Rejected(message))]
    /\ UNCHANGED <<workloadTimeoutMs, sseVars, runVars, scoreVars, fnVars>>

\* table.ts 314: the abort timer fires while the request is outstanding
AbortFire(k) ==
    /\ calls[k].abort = "armed" /\ calls[k].op = "pending"
    /\ calls[k].timer = "fired" \/ calls[k].abortMs <= calls[k].ms
    /\ calls' = [calls EXCEPT ![k].abort = "fired"]
    /\ UNCHANGED <<workloadTimeoutMs, sseVars, runVars, scoreVars, fnVars>>

\* table.ts 342-345: the aborted request rejects
OpAborted(k) ==
    /\ calls[k].op = "pending" /\ calls[k].abort = "fired"
    /\ calls' = [calls EXCEPT ![k] = opSettles(@, Rejected(mExecTimedOut))]
    /\ UNCHANGED <<workloadTimeoutMs, sseVars, runVars, scoreVars, fnVars>>

\* run.ts 307: the timer of withTimeout fires; nothing ever clears it
TimerFire(k) ==
    /\ calls[k].timer = "armed"
    /\ calls[k].abort # "armed" \/ calls[k].abortMs > calls[k].ms
    /\ calls' = [calls EXCEPT ![k] = timerFires(@)]
    /\ UNCHANGED <<workloadTimeoutMs, sseVars, runVars, scoreVars, fnVars>>

----------------------------------------------------------------------------
(* Composite scores and ranking: scoring.ts 15-102.  A number is a fraction *)
(* <<num, den>> in lowest terms with den > 0, and NaN is <<0, 0>>; the      *)
(* arithmetic is exact.  A BenchmarkResult is a record; successRate and     *)
(* compositeScore are fields it has only once they were assigned.           *)

\* the longest provider list handed to the scoring functions
MaxProviders == 3

NaN == <<0, 0>>
isNaN(x) == x[2] = 0
Num(n) == <<n, 1>>

abs(n) == IF n < 0 THEN 0 - n ELSE n

\* the fraction n / d in lowest terms, d > 0
ratio(n, d) == LET g == gcd(abs(n), d) IN <<n \div g, d \div g>>

plus(a, b) ==
    IF isNaN(a) \/ isNaN(b) THEN NaN
    ELSE ratio(a[1] * b[2] + b[1] * a[2], a[2] * b[2])

minus(a, b) ==
    IF isNaN(a) \/ isNaN(b) THEN NaN
    ELSE ratio(a[1] * b[2] - b[1] * a[2], a[2] * b[2])

times(a, b) ==
    IF isNaN(a) \/ isNaN(b) THEN NaN
    ELSE ratio(a[1] * b[1], a[2] * b[2])

\* a / b for b a positive number
over(a, b) ==
    IF isNaN(a) \/ isNaN(b) THEN NaN
    ELSE ratio(a[1] * b[2], a[2] * b[1])

\* a < b and a >= b of numbers: false when either is NaN
less(a, b) == ~isNaN(a) /\ ~isNaN(b) /\ a[1] * b[2] < b[1] * a[2]
atLeast(a, b) == ~isNaN(a) /\ ~isNaN(b) /\ a[1] * b[2] >= b[1] * a[2]

\* Math.max(0, x)
maxZero(x) == IF isNaN(x) THEN NaN ELSE IF x[1] < 0 THEN Num(0) ELSE x

\* Math.round(x): the nearest integer, a tie to the larger one
mathRound(x) ==
    IF isNaN(x) THEN NaN ELSE Num((2 * x[1] + x[2]) \div (2 * x[2]))

\* scoring.ts 15-21
DEFAULT_WEIGHTS ==
    [median |-> ratio(50, 100), p95 |-> ratio(20, 100), p99 |-> ratio(10, 100),
     min |-> ratio(5, 100), max |-> ratio(15, 100)]

\* scoring.ts 24
CEILING_MS == 10000

\* stats.median, stats.p95, ...: the number a property read as a number
\* gives, NaN when the object has no such property
numberOf(stats, name) == IF name \in DOMAIN stats THEN stats[name] ELSE NaN

\* a scoreMetric without the clamp at 0
scoreMetricUnclamped(valueMs) ==
    times(Num(100), minus(Num(1), over(valueMs, Num(CEILING_MS))))

\* scoring.ts 30-32
scoreMetric(valueMs) ==
    maxZero(times(Num(100), minus(Num(1), over(valueMs, Num(CEILING_MS)))))

\* scoring.ts 39: i => !i.error
RECURSIVE countSuccessful(_)
countSuccessful(iterations) ==
    IF iterations = <<>> THEN 0
    ELSE (IF ~Truthy(Head(iterations).error) THEN 1 ELSE 0)
         + countSuccessful(Tail(iterations))

\* scoring.ts 37-41
computeSuccessRate(result) ==
    IF result.skipped \/ Len(result.iterations) = 0 THEN Num(0)
    ELSE ratio(countSuccessful(result.iterations), Len(result.iterations))

\* scoring.ts 47-58
computeTimingScore(stats, weights) ==
    plus(plus(plus(plus(
        times(weights.median, scoreMetric(numberOf(stats, "median"))),
        times(weights.p95, scoreMetric(numberOf(stats, "p95")))),
        times(weights.p99, scoreMetric(numberOf(stats, "p99")))),
        times(weights.min, scoreMetric(numberOf(stats, "min")))),
        times(weights.max, scoreMetric(numberOf(stats, "max"))))

\* the result with successRate and compositeScore assigned
withScores(result, successRate, compositeScore) ==
    [successRate |-> successRate, compositeScore |-> compositeScore] @@ result

\* the loop body without the early continue for a skipped or never
\* successful result
scoreResultNoBypass(result, weights) ==
    LET successRate == computeSuccessRate(result)
        timingScore == computeTimingScore(result.summary.ttiMs, weights)
    IN  withScores(result, successRate,
                   over(mathRound(times(times(timingScore, successRate), Num(100))),
                        Num(100)))

\* scoring.ts 78-87: the body of the loop, for one result
scoreResult(result, weights) ==
    LET successRate == computeSuccessRate(result)
        timingScore == computeTimingScore(result.summary.ttiMs, weights)
    IN  IF result.skipped \/ successRate = Num(0)
        THEN withScores(result, successRate, Num(0))
        ELSE withScores(result, successRate,
                        over(mathRound(times(times(timingScore, successRate), Num(100))),
                             Num(100)))

RECURSIVE bestScore(_)
\* the largest compositeScore that is a number among scored results, 0 if none
bestScore(scored) ==
    IF scored = <<>> THEN Num(0)
    ELSE LET rest == bestScore(Tail(scored))
             mine == Head(scored).compositeScore
         IN  IF less(rest, mine) THEN mine ELSE rest

\* a loop that scales every score to the best score of the list
computeCompositeScoresRelative(list, weights) ==
    LET scored == [k \in 1..Len(list) |-> scoreResult(list[k], weights)]
        best == bestScore(scored)
    IN  [k \in 1..Len(list) |->
            IF isNaN(scored[k].compositeScore) \/ best = Num(0) THEN scored[k]
            ELSE withScores(scored[k], scored[k].successRate,
                            over(times(scored[k].compositeScore, Num(100)), best))]

\* scoring.ts 73-89: the list after the loop assigned to each of its results
computeCompositeScores(list, weights) ==
    [k \in 1..Len(list) |-> scoreResult(list[k], weights)]

\* scoring.ts 100: a.compositeScore ?? 0
scoreOrZero(result) ==
    IF "compositeScore" \in DOMAIN result THEN result.compositeScore ELSE Num(0)

\* scoring.ts 96-101: the comparator
sortCompare(a, b) ==
    IF a.skipped /\ ~b.skipped THEN Num(1)
    ELSE IF ~a.skipped /\ b.skipped THEN Num(0 - 1)
    ELSE IF a.skipped /\ b.skipped THEN Num(0)
    ELSE minus(scoreOrZero(b), scoreOrZero(a))

\* how Array.prototype.sort reads the comparator's number: NaN as 0
order(a, b) ==
    LET v == sortCompare(a, b)
    IN  IF isNaN(v) THEN 0 ELSE IF v[1] < 0 THEN 0 - 1 ELSE IF v[1] > 0 THEN 1 ELSE 0

(* Array.prototype.sort of a short array, as the runtime performs it: the   *)
(* leading run is taken as it stands (reversed when strictly descending)    *)
(* and every later element is inserted into the sorted part by binary       *)
(* search, after the elements it does not precede.  The array holds         *)
(* references, modelled as the positions of the results in the input list.  *)

reverse(seq) == [k \in 1..Len(seq) |-> seq[Len(seq) + 1 - k]]

RECURSIVE runLength(_, _, _, _)
\* the length of the run of refs that starts at 1, k being its last member
runLength(list, refs, k, descending) ==
    IF k = Len(refs) THEN k
    ELSE LET o == order(list[refs[k + 1]], list[refs[k]])
         IN  IF (descending /\ o >= 0) \/ (~descending /\ o < 0) THEN k
             ELSE runLength(list, refs, k + 1, descending)

RECURSIVE searchLeft(_, _, _, _, _)
\* the place of pivot among refs[left .. right - 1]
searchLeft(list, refs, pivot, left, right) ==
    IF left >= right THEN left
    ELSE LET mid == left + ((right - left) \div 2)
         IN  IF order(list[pivot], list[refs[mid]]) < 0
             THEN searchLeft(list, refs, pivot, left, mid)
             ELSE searchLeft(list, refs, pivot, mid + 1, right)

RECURSIVE insertFrom(_, _, _)
\* refs[1 .. first - 1] is sorted: insert refs[first], refs[first + 1], ...
insertFrom(list, refs, first) ==
    IF first > Len(refs) THEN refs
    ELSE LET left == searchLeft(list, refs, refs[first], 1, first)
             moved == SubSeq(refs, 1, left - 1) \o <<refs[first]>>
                      \o SubSeq(refs, left, first - 1)
                      \o SubSeq(refs, first + 1, Len(refs))
         IN  insertFrom(list, moved, first + 1)

\* scoring.ts 95-102: the list returned, as references into the input
sortByCompositeScore(list) ==
    LET refs == [k \in 1..Len(list) |-> k]
    IN  IF Len(list) < 2 THEN refs
        ELSE LET descending == order(list[2], list[1]) < 0
                 n == runLength(list, refs, 2, descending)
                 run == IF descending
                        THEN reverse(SubSeq(refs, 1, n)) \o SubSeq(refs, n + 1, Len(refs))
                        ELSE refs
             IN  insertFrom(list, run, n + 1)

\* the Stats of a result that carries the percentiles scoring.ts 52-56 reads
fullStats(v) ==
    [min |-> Num(v), max |-> Num(v), median |-> Num(v), avg |-> Num(v),
     p95 |-> Num(v), p99 |-> Num(v)]

\* a BenchmarkResult as a caller may build it
resultOf(iterations, skipped, stats) ==
    [iterations |-> iterations, skipped |-> skipped,
     skipReason |-> IF skipped THEN mAllFailed ELSE <<>>,
     summary |-> [ttiMs |-> stats, workloadMs |-> None, totalMs |-> None]]

ok(tti) == Sample(tti, None, None, None)

\* the results runBenchmark returns (run.ts 196-224)
RunResults ==
    {summarise(<<ok(410)>>),
     summarise(<<ok(200), caughtSample(<<"boom">>)>>),
     summarise(<<caughtSample(<<>>), ok(5)>>),
     summarise(<<caughtSample(<<"boom">>)>>)}

\* results built elsewhere: with the percentiles, skipped with samples and
\* statistics, never successful, without samples
BuiltResults ==
    {resultOf(<<ok(2000), caughtSample(<<"boom">>)>>, FALSE, fullStats(2000)),
     resultOf(<<ok(1000)>>, FALSE, fullStats(1000)),
     resultOf(<<ok(2000), caughtSample(<<"boom">>), caughtSample(<<"boom">>)>>,
              FALSE, fullStats(2000)),
     resultOf(<<ok(300)>>, TRUE, computeStats(<<300>>)),
     resultOf(<<caughtSample(<<"boom">>)>>, FALSE, computeStats(<<7>>)),
     resultOf(<<>>, FALSE, fullStats(100))}

ScoreInputs == RunResults \cup BuiltResults

RECURSIVE listsUpTo(_)
listsUpTo(n) ==
    IF n = 0 THEN {<<>>}
    ELSE LET shorter == listsUpTo(n - 1)
         IN  shorter \cup {Append(l, r) : l \in shorter, r \in ScoreInputs}

\* computeCompositeScores(results): assigns to the results of the list
ComputeScores ==
    /\ scorePc = "results"
    /\ ranked = None
    /\ providers' = computeCompositeScores(providers, DEFAULT_WEIGHTS)
    /\ scorePc' = "scored"
    /\ UNCHANGED <<ranked, sseVars, runVars, stepVars, fnVars>>

\* sortByCompositeScore(results), of results scored or not
Sort ==
    /\ ranked = None
    /\ ranked' = Some(sortByCompositeScore(providers))
    /\ UNCHANGED <<providers, scorePc, sseVars, runVars, stepVars, fnVars>>


----------------------------------------------------------------------------
(* The specifications: each holds the other parts' variables still          *)

NoResult == [kind |-> "none", message |-> <<>>, stdout |-> <<>>,
             stderr |-> <<>>, exitCode |-> None]

SseIdle ==
    /\ stream = <<>>
    /\ pos = 0
    /\ p = InitParser
    /\ ssePc = "idle"
    /\ sseResult = NoResult

RunIdle ==
    /\ config = [iterations |-> 1, setupCommand |-> FALSE, command |-> FALSE,
                 missingVars |-> <<>>]
    /\ compute = "none"
    /\ pc = "idle"
    /\ i = 0
    /\ results = <<>>
    /\ sandbox = None
    /\ start = 0
    /\ ttiMs = 0
    /\ workloadStart = 0
    /\ pending = NoCompletion
    /\ benchResult = None
    /\ now = 0
    /\ abandoned = {}
    /\ yielded = <<>>
    /\ destroyCalls = <<>>
    /\ createCalls = 0
    /\ log = <<>>
    /\ faults = 0

StepIdle ==
    /\ workloadTimeoutMs = 0
    /\ calls = <<>>

ScoreIdle ==
    /\ providers = <<>>
    /\ ranked = None
    /\ scorePc = "idle"

FnIdle ==
    /\ metricInput = Num(0)
    /\ metricValue = None
    /\ timings = <<>>
    /\ timingStats = None

SseInit ==
    /\ stream \in Streams
    /\ pos = 0
    /\ p = InitParser
    /\ ssePc = "reading"
    /\ sseResult = NoResult
    /\ RunIdle
    /\ StepIdle
    /\ ScoreIdle
    /\ FnIdle

\* table.ts 420-435: reader.read() resolves with the next k bytes; the first
\* and the last chunk have any length
SseRead(k) ==
    /\ ssePc = "reading"
    /\ pos + k <= Len(stream)
    /\ k <= MaxChunk \/ pos = 0 \/ pos + k = Len(stream)
    /\ p' = feedChunk(p, SubSeq(stream, pos + 1, pos + k))
    /\ pos' = pos + k
    /\ UNCHANGED <<stream, ssePc, sseResult, runVars, stepVars, scoreVars, fnVars>>

\* table.ts 421-423, 438-452: reader.read() resolves with done
SseEnd ==
    /\ ssePc = "reading"
    /\ pos = Len(stream)
    /\ p' = endOfStream(p)
    /\ ssePc' = "done"
    /\ sseResult' = sseOutcome(p')
    /\ UNCHANGED <<stream, pos, runVars, stepVars, scoreVars, fnVars>>

SseNext ==
    \/ \E k \in 0..Len(stream) : SseRead(k)
    \/ SseEnd

SpecSse == SseInit /\ [][SseNext]_vars

StepInit ==
    /\ workloadTimeoutMs \in WorkloadTimeouts
    /\ calls = <<>>
    /\ RunIdle
    /\ SseIdle
    /\ ScoreIdle
    /\ FnIdle

StepNext ==
    \/ StepCall
    \/ \E k \in 1..Len(calls), result \in CommandResults : OpResolve(k, result)
    \/ \E k \in 1..Len(calls), message \in RejectMessages : OpReject(k, message)
    \/ \E k \in 1..Len(calls) : AbortFire(k)
    \/ \E k \in 1..Len(calls) : OpAborted(k)
    \/ \E k \in 1..Len(calls) : TimerFire(k)

SpecStep == StepInit /\ [][StepNext]_vars

ScoreInit ==
    /\ providers \in listsUpTo(MaxProviders)
    /\ ranked = None
    /\ scorePc = "results"
    /\ RunIdle
    /\ SseIdle
    /\ StepIdle
    /\ FnIdle

ScoreNext ==
    \/ ComputeScores
    \/ Sort

SpecScore == ScoreInit /\ [][ScoreNext]_vars

\* the millisecond values scoreMetric is called with are the multiples of
\* 62.5 up to this index
MaxMetricIndex == 336

MetricInputs == {ratio(125 * n, 2) : n \in 0..MaxMetricIndex}

MetricInit ==
    /\ metricInput \in MetricInputs
    /\ metricValue = None
    /\ timings = <<>>
    /\ timingStats = None
    /\ RunIdle
    /\ SseIdle
    /\ StepIdle
    /\ ScoreIdle

\* scoreMetric(valueMs)
ApplyScoreMetric ==
    /\ metricValue = None
    /\ metricValue' = Some(scoreMetric(metricInput))
    /\ UNCHANGED <<metricInput, timings, timingStats, sseVars, runVars, stepVars,
                   scoreVars>>

MetricNext == ApplyScoreMetric

SpecMetric == MetricInit /\ [][MetricNext]_vars

\* the longest list of timing values computeStats is called with
MaxSamples == 4

\* the timing values, in ms
TimingValues == {100, 200, 300, 400}

RECURSIVE timingLists(_)
\* the non-empty lists of at most n timing values
timingLists(n) ==
    IF n = 1 THEN {<<v>> : v \in TimingValues}
    ELSE LET shorter == timingLists(n - 1)
         IN  shorter \cup {Append(l, v) : l \in shorter, v \in TimingValues}

StatsInit ==
    /\ timings \in timingLists(MaxSamples)
    /\ timingStats = None
    /\ metricInput = Num(0)
    /\ metricValue = None
    /\ RunIdle
    /\ SseIdle
    /\ StepIdle
    /\ ScoreIdle

\* computeStats(values); [...values].sort sorts a copy
ApplyComputeStats ==
    /\ timingStats = None
    /\ timingStats' = Some(computeStats(timings))
    /\ UNCHANGED <<timings, metricInput, metricValue, sseVars, runVars, stepVars,
                   scoreVars>>

StatsNext == ApplyComputeStats

SpecStats == StatsInit /\ [][StatsNext]_vars

Init == RunInit /\ SseIdle /\ StepIdle /\ ScoreIdle /\ FnIdle

Next ==
    \/ Start
    \/ \E d \in 0..1 : CreateResolve(d)
    \/ \E message \in RejectMessages, d \in 0..1 : CreateReject(message, d)
    \/ \E d \in 0..1 : CreateTimeout(d)
    \/ \E result \in CommandResults, d \in 0..1, e \in 0..1 : CommandResolve(result, d, e)
    \/ \E message \in TransportMessages, d \in 0..1 : CommandReject(message, d)
    \/ \E d \in 0..1 : CommandTimeout(d)
    \/ \E how \in {"ok", "fail", "timeout"}, d \in 0..1 :
          \E message \in {<<>>, mDestroyTimeout} \cup TransportMessages :
             DestroySettle(how, message, d)
    \/ \E op \in abandoned, resolved \in BOOLEAN : LateSettle(op, resolved)

Spec == Init /\ [][Next]_vars

----------------------------------------------------------------------------
(* Properties of parseSseResult, checked under SpecSse                      *)

RECURSIVE payloadsOfType(_, _)
\* the payloads of the events of one type, in arrival order
payloadsOfType(events, type) ==
    IF events = <<>> THEN <<>>
    ELSE IF Head(events).type = type
         THEN <<Head(events).payload>> \o payloadsOfType(Tail(events), type)
    ELSE payloadsOfType(Tail(events), type)

\* the stream held an exit event whose payload parsed to an integer
ValidExitSeen ==
    \E k \in 1..Len(p.events) :
        p.events[k].type = sExit /\ parseInt(p.events[k].payload) # None

\* C4: once the stream has ended, an error event anywhere in it makes
\* parseSseResult throw the stream error that carries the error payloads joined
\* with newlines, whatever else the stream held.
C4_ErrorEventAlwaysThrows ==
    ssePc = "done" /\ payloadsOfType(p.events, sError) # <<>> =>
        /\ sseResult.kind = "throw"
        /\ sseResult.message = sStreamError \o join(payloadsOfType(p.events, sError), LF)

\* C5: a stream without error events and without an exit event whose payload
\* parsed to an integer ends in the "ended without exit event" error; a result
\* is returned only with an integer exit code an exit event carried.
C5_NoExitCodeThrows ==
    ssePc = "done" =>
        /\ payloadsOfType(p.events, sError) = <<>> /\ ~ValidExitSeen =>
              sseResult.kind = "throw" /\ sseResult.message = sNoExit
        /\ sseResult.kind = "ok" =>
              /\ ValidExitSeen
              /\ \E k \in 1..Len(p.events) :
                    /\ p.events[k].type = sExit
                    /\ sseResult.exitCode = parseInt(p.events[k].payload)

\* C5: a stream with stdout and an exit event whose payload is no integer ended
C5_Witness ==
    /\ ssePc = "done"
    /\ payloadsOfType(p.events, sStdout) # <<>>
    /\ payloadsOfType(p.events, sExit) # <<>>
    /\ ~ValidExitSeen
    /\ sseResult.message = sNoExit

\* the bytes delivered so far
Delivered == SubSeq(stream, 1, pos)

\* C6: however the reads cut the body, the parser is, after every read, in the
\* state a single read of all bytes delivered so far leaves it in: the same
\* lines were handled and the same text is buffered; at the end of the stream
\* the outcome is that of the body read in one chunk.
C6_ChunkingInvariant ==
    /\ ssePc = "reading" => p = feedChunk(InitParser, Delivered)
    /\ ssePc = "done" =>
          /\ p.lines = parseWhole(stream).lines
          /\ sseResult = sseOutcome(parseWhole(stream))

\* C6: a read has ended between the two bytes of a character, after lines
\* were handled and before the end of the body
C6_Witness ==
    /\ ssePc = "reading"
    /\ p.pend # <<>>
    /\ p.lines # <<>>
    /\ 0 < pos /\ pos < Len(stream)

\* C6: a read ended between the CR and the LF of a line end
C6_WitnessCrLf ==
    /\ ssePc = "reading"
    /\ p.buffer # <<>> /\ p.buffer[Len(p.buffer)] = "CR"
    /\ pos < Len(stream) /\ stream[pos + 1] = "LF"

\* the body with its last record terminated: the newline that ends a partial
\* last line, and the blank line
Terminated(bytes) ==
    IF bytes # <<>> /\ bytes[Len(bytes)] = "LF" THEN bytes \o LF
    ELSE bytes \o LF \o LF

\* C7: the end of the stream handles a partial last line and folds the record
\* buffered so far: the outcome is that of the same body with the last record
\* terminated by a blank line.
C7_EndOfStreamFlush ==
    ssePc = "done" => sseResult = sseOutcome(parseWhole(Terminated(stream)))

\* C7: a stream ended in the middle of the data line of its exit record, and the
\* exit code of that record is returned
C7_Witness ==
    /\ ssePc = "done"
    /\ stream # <<>> /\ stream[Len(stream)] # "LF"
    /\ startsWith(p.lines[Len(p.lines)], sData)
    /\ p.events[Len(p.events)].type = sExit
    /\ sseResult.kind = "ok"

\* the remainder of a data line with at most one leading space removed
fragmentOf(line) ==
    LET rest == slice(line, 5)
    IN  IF rest # <<>> /\ rest[1] = " " THEN Tail(rest) ELSE rest

RECURSIVE expectedRecords(_, _, _)
\* the fragments pending and the payloads completed after the lines handled,
\* one fragment per data line, a payload per blank line that ends a record
\* with data
expectedRecords(lines, fragments, payloads) ==
    IF lines = <<>> THEN [fragments |-> fragments, payloads |-> payloads]
    ELSE LET line == Head(lines) IN
         IF line = <<>>
         THEN expectedRecords(Tail(lines), <<>>,
                 IF fragments = <<>> THEN payloads
                 ELSE Append(payloads, join(fragments, LF)))
         ELSE IF startsWith(line, sData)
         THEN expectedRecords(Tail(lines), Append(fragments, fragmentOf(line)), payloads)
         ELSE expectedRecords(Tail(lines), fragments, payloads)

\* C8: every data line contributes the text after "data:" less at most one
\* leading space, and an event's payload is its fragments joined by newlines in
\* arrival order.
C8_DataFragments ==
    LET expected == expectedRecords(p.lines, <<>>, <<>>)
        payloads == [k \in 1..Len(p.events) |-> p.events[k].payload]
    IN  /\ ssePc = "reading" =>
              p.dataLines = expected.fragments /\ payloads = expected.payloads
        /\ ssePc = "done" =>
              payloads = IF expected.fragments = <<>> THEN expected.payloads
                         ELSE Append(expected.payloads, join(expected.fragments, LF))


RECURSIVE validExits(_)
\* what the exit events' payloads parsed to, those that parsed, in arrival order
validExits(events) ==
    IF events = <<>> THEN <<>>
    ELSE IF Head(events).type = sExit /\ parseInt(Head(events).payload) # None
         THEN <<parseInt(Head(events).payload)>> \o validExits(Tail(events))
    ELSE validExits(Tail(events))

\* C25: the exit code recorded is that of the last exit event whose payload
\* parsed to an integer: an exit event whose payload does not parse leaves it
\* as it was, a later one that parses replaces it.
C25_LastValidExitWins ==
    LET valid == validExits(p.events)
    IN  p.exitCode = IF valid = <<>> THEN None ELSE valid[Len(valid)]

\* C25: an exit event of payload 0, then one whose payload is no integer: the
\* stream ended and 0 was returned
C25_Witness ==
    /\ ssePc = "done"
    /\ payloadsOfType(p.events, sExit) = << <<"0">>, <<"x">> >>
    /\ sseResult.kind = "ok"
    /\ sseResult.exitCode = Some(0)

\* C25: an exit event of payload 0, then one of payload 7: 7 was returned
C25_WitnessOverwrite ==
    /\ ssePc = "done"
    /\ payloadsOfType(p.events, sExit) = << <<"0">>, <<"7">> >>
    /\ sseResult.exitCode = Some(7)

RECURSIVE expectedTypes(_, _, _, _)
\* the event type pending, whether data is buffered and the types of the
\* events emitted after the lines handled: a blank line ends the record and
\* emits its type if it had a data line, an event line sets the type of its
\* record, every other line leaves the type alone
expectedTypes(lines, type, hasData, types) ==
    IF lines = <<>> THEN [type |-> type, hasData |-> hasData, types |-> types]
    ELSE LET line == Head(lines) IN
         IF line = <<>>
         THEN expectedTypes(Tail(lines), sMessage, FALSE,
                            IF hasData THEN Append(types, type) ELSE types)
         ELSE IF startsWith(line, <<":">>)
         THEN expectedTypes(Tail(lines), type, hasData, types)
         ELSE IF startsWith(line, sEvent)
         THEN expectedTypes(Tail(lines), trim(slice(line, 6)), hasData, types)
         ELSE IF startsWith(line, sData)
         THEN expectedTypes(Tail(lines), type, TRUE, types)
         ELSE expectedTypes(Tail(lines), type, hasData, types)

\* a comment line, unrecognized fields, a line of white space
IgnoredLines ==
    {<<":", "c">>, <<"i", "d", ":", "1">>, <<"d", "a", "t", "a">>, <<" ">>,
     <<"r", "e", "t", "r", "y", ":", "5">>}

RECURSIVE concatAll(_)
concatAll(texts) ==
    IF texts = <<>> THEN <<>> ELSE Head(texts) \o concatAll(Tail(texts))

\* C26: after a blank line the pending event type is the default and no data
\* is buffered, whether an event was emitted or not; so an event line types
\* its own record only, a typed record without data emits nothing, stdout,
\* stderr and the exit code come from the records of their type alone, and
\* comment lines and unrecognized fields leave the parser as it was.
C26_BlankLineResets ==
    LET e == expectedTypes(p.lines, sMessage, FALSE, <<>>)
        types == [k \in 1..Len(p.events) |-> p.events[k].type]
        valid == validExits(p.events)
    IN  /\ ssePc = "reading" =>
              /\ p.currentEvent = e.type
              /\ (p.dataLines # <<>>) = e.hasData
              /\ types = e.types
              /\ (p.lines # <<>> /\ p.lines[Len(p.lines)] = <<>>) =>
                     p.currentEvent = sMessage /\ p.dataLines = <<>>
              /\ \A line \in IgnoredLines :
                     handleLine(p, line) = [p EXCEPT !.lines = Append(@, line)]
        /\ ssePc = "done" =>
              /\ p.currentEvent = sMessage
              /\ p.dataLines = <<>>
              /\ types = IF e.hasData THEN Append(e.types, e.type) ELSE e.types
        /\ p.stdout = concatAll(payloadsOfType(p.events, sStdout))
        /\ p.stderr = concatAll(payloadsOfType(p.events, sStderr))
        /\ p.exitCode = IF valid = <<>> THEN None ELSE valid[Len(valid)]
        /\ payloadsOfType(p.events, sError) = <<>> => p.pendingError = None

\* C26: a stdout record without data, an untyped record with data, a comment
\* and an unrecognized field were read: one untyped event, nothing on stdout
C26_Witness ==
    /\ ssePc = "done"
    /\ \E k \in 1..Len(p.lines) : p.lines[k] = sEvent \o SP \o sStdout
    /\ \E k \in 1..Len(p.lines) : p.lines[k] = <<":", "c">>
    /\ \E k \in 1..Len(p.lines) : p.lines[k] = <<"i", "d", ":", "1">>
    /\ Len(p.events) = 1
    /\ p.events[1].type = sMessage
    /\ p.stdout = <<>>

----------------------------------------------------------------------------
(* Properties of runBenchmark and runIteration, checked under Spec          *)

\* the steps before teardown that failed or timed out, by position in the log
failuresIn(lg) ==
    {j \in 1..Len(lg) : lg[j][1] # "destroy" /\ lg[j][2] \in {"fail", "timeout"}}

\* the message of the first failure an iteration's log holds, None without one
firstFailure(lg) ==
    IF failuresIn(lg) = {} THEN None
    ELSE Some(lg[CHOOSE j \in failuresIn(lg) : \A j2 \in failuresIn(lg) : j <= j2][3])

\* C1: every sandbox create() has yielded for an iteration whose sample is
\* recorded, whether it resolved before or after the creation deadline, has had
\* destroy() called on it.
C1_EverySandboxDestroyed ==
    \A k \in 1..Len(results) : yielded[k] # "no" => destroyCalls[k] >= 1

\* C2: an iteration whose create() resolved in time has destroy() called exactly
\* once, an iteration whose creation failed never; the call is made when every
\* step issued before has settled, and not while a step is awaited.
C2_DestroyExactlyOnce ==
    /\ \A k \in 1..Len(results) :
          destroyCalls[k] = IF yielded[k] = "intime" THEN 1 ELSE 0
    /\ pc \in {"create"} \cup CommandSteps => destroyCalls[i + 1] = 0
    /\ pc = "destroy" =>
          /\ yielded[i + 1] = "intime" /\ destroyCalls[i + 1] = 1
          /\ log[Len(log)] = <<"destroy", "issue", <<>> >>
          /\ \A j \in 1..(Len(log) - 1) :
                /\ log[j][1] # "destroy"
                /\ log[j][2] = "issue" =>
                      /\ j + 1 < Len(log)
                      /\ log[j + 1][1] = log[j][1]
                      /\ log[j + 1][2] # "issue"

\* C2: a run is over in which one iteration failed after its sandbox was made
\* and was torn down once, and another failed to make its sandbox
C2_Witness ==
    /\ pc = "done"
    /\ \E k \in 1..Len(results) :
          results[k].error # None /\ yielded[k] = "intime" /\ destroyCalls[k] = 1
    /\ \E k \in 1..Len(results) :
          results[k].error # None /\ yielded[k] = "no" /\ destroyCalls[k] = 0

\* C3: whatever way the teardown settles, the sample recorded is the one the
\* try block completed with: the timing sample unchanged, or the message of
\* the first failure before the teardown; exactly one sample is recorded.
C3_TeardownNeverChangesOutcome ==
    [][pc = "destroy" /\ pc' # "destroy" =>
          /\ Len(results') = Len(results) + 1
          /\ results'[Len(results')].error = firstFailure(log)
          /\ pending.kind = "return" => results'[Len(results')] = pending.sample
          /\ SubSeq(results', 1, Len(results)) = results]_vars

\* C3: a command step failed, then the teardown timed out, and the last sample
\* recorded holds the command's failure message
C3_Witness ==
    /\ pc = "done"
    /\ \E j \in 1..Len(log) :
          /\ log[j][1] \in CommandSteps /\ log[j][2] = "fail"
          /\ results[Len(results)].error = Some(log[j][3])
    /\ log[Len(log)] = <<"destroy", "timeout", mDestroyTimeout>>

\* C9: a failure before teardown ends the iteration's steps: no step but the
\* teardown follows it, one sample is recorded per iteration, the sample of a
\* failed iteration carries the first failure's message with ttiMs 0 and no
\* workloadMs or totalMs, and the success filter counts it as failed.
C9_FailedIterationRecorded ==
    /\ Len(results) = i
    /\ \A j \in failuresIn(log) : \A j2 \in (j + 1)..Len(log) : log[j2][1] = "destroy"
    /\ pc = "done" /\ results # <<>> => results[Len(results)].error = firstFailure(log)
    /\ \A k \in 1..Len(results) :
          results[k].error # None =>
             /\ results[k] = Sample(0, None, None, results[k].error)
             /\ ~isSuccessful(results[k])

\* the samples of the iterations that completed without an error
completedOf(seq) == SelectSeq(seq, LAMBDA r : r.error = None)

\* C10: a run whose iterations all failed is skipped with the reason "All
\* iterations failed" and zeroed ttiMs statistics; the statistics of a run that
\* is not skipped are those of the iterations that completed without an error.
C10_AllFailedSkipped ==
    pc = "done" /\ config.missingVars = <<>> =>
        LET r == benchResult[1] IN
        /\ r.iterations = results
        /\ completedOf(results) = <<>> =>
              r.skipped /\ r.skipReason = mAllFailed /\ r.summary.ttiMs = ZeroStats
        /\ ~r.skipped => r.summary.ttiMs = computeStats(ttiOf(completedOf(results)))

\* C11: while a step of an iteration is awaited, no operation of an earlier
\* iteration is still outstanding at the provider: the next create() is issued
\* only when the teardown and every other operation before it has settled.
C11_IterationsNeverOverlap ==
    pc \in Steps => \A op \in abandoned : op[1] = i

\* C24: while a step of an iteration is awaited, no other operation of that
\* iteration is outstanding at the provider: a command and destroy() are
\* issued only when the step before has settled there, also when a wrapper
\* timeout abandoned it.
C24_StepsNeverOverlap ==
    pc \in Steps => \A op \in abandoned : op[1] # i

\* C27: with the credentials present, every iteration adds one sample at the
\* end of the results and nothing else changes them, and runBenchmark returns
\* when `iterations` samples were recorded and create() was invoked
\* `iterations` times: the samples it returns are these, in that order.
C27_OneSamplePerIteration ==
    [][/\ results' # results =>
              /\ results' = Append(results, results'[Len(results')])
              /\ i' = Len(results')
              /\ createCalls = Len(results')
       /\ (pc' = "done" /\ config.missingVars = <<>>) =>
              /\ Len(results') = config.iterations
              /\ createCalls' = config.iterations
              /\ benchResult' # None
              /\ benchResult'[1].iterations = results']_vars

\* C27: a run of two iterations returned a failed sample and a successful one
C27_Witness ==
    /\ pc = "done"
    /\ config.iterations = 2
    /\ Len(benchResult[1].iterations) = 2
    /\ benchResult[1].iterations[1].error # None
    /\ benchResult[1].iterations[2].error = None
    /\ createCalls = 2

\* the successful samples with a workload have ttiMs and workloadMs of at
\* least 0 and a totalMs of at least their sum
TimingsOrdered ==
    \A k \in 1..Len(results) :
        (results[k].error = None /\ results[k].workloadMs # None) =>
            /\ results[k].ttiMs >= 0
            /\ results[k].workloadMs[1] >= 0
            /\ results[k].totalMs # None
            /\ results[k].totalMs[1] >= results[k].ttiMs + results[k].workloadMs[1]

\* C28: the clock never going back, a successful sample with a workload has
\* 0 <= ttiMs, 0 <= workloadMs and totalMs >= ttiMs + workloadMs: ttiMs runs
\* from the start of the creation to the completion of the first command,
\* the workload phase is entered then or later, workloadMs runs from there to
\* the completion of the last configured command and totalMs from the start
\* of the creation to that completion.
C28_TimingSpans ==
    [][/\ TimingsOrdered'
       /\ (pc = "smoke" /\ pc' \in {"setup", "workload"}) =>
              /\ \E t \in now..now' : ttiMs' = t - start
              /\ workloadStart' = now'
              /\ start' = start
       /\ (pc \in CommandSteps /\ pc' = "destroy" /\ pending'.kind = "return"
              /\ (config.setupCommand \/ config.command)) =>
              /\ pending'.sample.ttiMs = ttiMs
              /\ \E t \in now..now' :
                     pending'.sample.workloadMs = Some(t - workloadStart)
              /\ pending'.sample.totalMs = Some(now' - start)
       /\ (pc = "destroy" /\ pc' # "destroy" /\ pending.kind = "return") =>
              results' = Append(results, pending.sample)]_vars

\* C28: a run recorded a successful sample with a workload whose ttiMs is
\* above 0
C28_Witness ==
    /\ pc = "done"
    /\ \E k \in 1..Len(results) :
          /\ results[k].error = None /\ results[k].workloadMs # None
          /\ results[k].ttiMs > 0

\* C28: a successful sample whose totalMs is larger than ttiMs + workloadMs
C28_WitnessGap ==
    /\ pc = "done"
    /\ \E k \in 1..Len(results) :
          /\ results[k].error = None /\ results[k].workloadMs # None
          /\ results[k].totalMs[1] > results[k].ttiMs + results[k].workloadMs[1]

----------------------------------------------------------------------------
(* Properties of withTimeout, checked under SpecStep                        *)

\* C12: the race of every withTimeout call is unsettled until a contender
\* settles, then holds the outcome of the contender that settled first, the
\* command's own outcome or the rejection with the call's message, and keeps it
\* when the other contender settles later, in this call and in later calls.
C12_RaceSettlesOnce ==
    \A k \in 1..Len(calls) :
        LET c == calls[k] IN
        /\ c.first = "none" => c.race = None /\ c.op = "pending" /\ c.timer = "armed"
        /\ c.first = "op" => c.op = "settled" /\ c.race = c.opOutcome
        /\ c.first = "timer" => c.timer = "fired" /\ c.race = Some(Rejected(c.message))
        /\ k < Len(calls) => c.race = Some(Fulfilled(<<>>))

\* C12: the timer of the smoke command fired after the command had succeeded
\* and while the setup command, which succeeded too, was awaited or done
C12_Witness ==
    /\ Len(calls) >= 2
    /\ calls[1].first = "op" /\ calls[1].timer = "fired"
    /\ calls[1].race = Some(Fulfilled(<<>>))
    /\ calls[2].first = "op" /\ calls[2].race = Some(Fulfilled(<<>>))

\* C13: when the race of a command step has settled with the step's timeout
\* message, the abort signal of the step's request has been triggered.
C13_AbortAtTimeout ==
    \A k \in 1..Len(calls) :
        calls[k].race = Some(Rejected(calls[k].message)) => calls[k].abort = "fired"

\* the steps before teardown an iteration's log holds as issued, in order
issuedIn(lg) ==
    LET issues == SelectSeq(lg, LAMBDA entry : entry[2] = "issue" /\ entry[1] # "destroy")
    IN  [k \in 1..Len(issues) |-> issues[k][1]]

\* create, the smoke command, then the commands the workload configures
stepsConfigured ==
    <<"create", "smoke">> \o (IF config.setupCommand THEN <<"setup">> ELSE <<>>)
                          \o (IF config.command THEN <<"workload">> ELSE <<>>)

\* C14: the steps issued are a prefix of create, smoke, setup (if configured),
\* workload (if configured), each issued right after the step before settled
\* with success; a successful sample follows all of them, and carries
\* workloadMs and totalMs exactly when a setup or workload command is
\* configured.
C14_StepOrderAndSampleShape ==
    /\ pc # "init" /\ pc # "idle" /\ config.missingVars = <<>> =>
          /\ Len(issuedIn(log)) <= Len(stepsConfigured)
          /\ issuedIn(log) = SubSeq(stepsConfigured, 1, Len(issuedIn(log)))
          /\ \A j \in 2..Len(log) :
                log[j][2] = "issue" /\ log[j][1] # "destroy" =>
                    log[j - 1][2] = "ok" /\ log[j - 1][1] # log[j][1]
          /\ pc = "done" /\ results[Len(results)].error = None =>
                issuedIn(log) = stepsConfigured
    /\ \A k \in 1..Len(results) :
          results[k].error = None =>
             /\ results[k].workloadMs # None <=> (config.setupCommand \/ config.command)
             /\ results[k].totalMs # None <=> (config.setupCommand \/ config.command)

\* C14: a run with a setup and a workload command has ended with an iteration
\* that issued all four steps and recorded workloadMs and totalMs, after an
\* iteration that did too
C14_Witness ==
    /\ pc = "done"
    /\ config.setupCommand /\ config.command
    /\ issuedIn(log) = <<"create", "smoke", "setup", "workload">>
    /\ \A k \in 1..Len(results) :
          results[k].error = None /\ results[k].workloadMs # None
    /\ Len(results) >= 2

\* C16: a run whose required credentials are not all set makes no compute
\* client and issues no create, runCommand or destroy; it ends with a skipped
\* result that names the missing variables and has no iterations.
C16_MissingCredentialsSkip ==
    config.missingVars # <<>> =>
        /\ pc \in {"init", "done"}
        /\ compute = "none"
        /\ log = <<>> /\ abandoned = {} /\ results = <<>>
        /\ \A k \in 1..Len(destroyCalls) : destroyCalls[k] = 0 /\ yielded[k] = "no"
        /\ pc = "done" =>
              /\ benchResult # None
              /\ benchResult[1].skipped
              /\ benchResult[1].iterations = <<>>
              /\ benchResult[1].skipReason =
                    <<"Missing: ">> \o join(config.missingVars, <<",", " ">>)
              /\ benchResult[1].summary.ttiMs = ZeroStats

\* C16: a run with two missing variables has returned
C16_Witness ==
    /\ pc = "done"
    /\ Len(config.missingVars) = 2
    /\ benchResult # None /\ benchResult[1].skipped

\* C15: a command that resolves with a non-zero exit code fails its step: the
\* step's failure carries '<step prefix> (exit <code>)', followed, when the
\* trimmed stderr or else the trimmed stdout is not empty, by ': ' and that
\* text, whole or cut to 220 characters that end in '...'; no further command
\* is issued and the teardown is.
C15_NonZeroExitFailsStep ==
    [][\A result \in CommandResults :
          (result.exitCode # 0 /\ \E d \in 0..1 : CommandResolve(result, d, 0)) =>
             LET source == IF trim(result.stderr) # <<>> THEN trim(result.stderr)
                           ELSE trim(result.stdout)
                 prefix == CASE pc = "smoke" -> "First command execution failed"
                             [] pc = "setup" -> "Workload setup failed"
                             [] pc = "workload" -> "Workload command failed"
                 message == pending'.message
                 detail == SubSeq(message, 5, Len(message))
             IN  /\ pc' = "destroy"
                 /\ destroyCalls'[i + 1] = 1
                 /\ log' = log \o << <<pc, "fail", message>>, <<"destroy", "issue", <<>> >> >>
                 /\ pending'.kind = "throw"
                 /\ IF source = <<>>
                    THEN message = <<prefix, " (exit ", ToString(result.exitCode), ")">>
                    ELSE /\ SubSeq(message, 1, 4) =
                               <<prefix, " (exit ", ToString(result.exitCode), "): ">>
                         /\ Len(detail) <= 220
                         /\ Len(source) <= 220 => detail = source
                         /\ Len(source) > 220 =>
                               detail = SubSeq(source, 1, 217) \o <<".", ".", ".">>]_vars

\* C15: the setup command exited with 1 in a run that configures a workload
\* command: the sample holds 'Workload setup failed (exit 1): err', the
\* workload command was not issued and the sandbox was torn down
C15_Witness ==
    /\ pc = "done"
    /\ config.command
    /\ issuedIn(log) = <<"create", "smoke", "setup">>
    /\ results[Len(results)].error =
          Some(<<"Workload setup failed", " (exit ", "1", "): ", "e", "r", "r">>)
    /\ destroyCalls[Len(results)] = 1
    /\ log[Len(log)][1] = "destroy"

----------------------------------------------------------------------------
(* Properties of computeCompositeScores and sortByCompositeScore, checked   *)
(* under SpecScore                                                          *)

\* the result as it was before successRate and compositeScore were assigned
unscored(result) ==
    [f \in DOMAIN result \ {"successRate", "compositeScore"} |-> result[f]]

\* the ttiMs of the samples of iterations that did not fail
RECURSIVE completedTti(_)
completedTti(iterations) ==
    IF iterations = <<>> THEN <<>>
    ELSE IF Head(iterations).error = None
         THEN <<Head(iterations).ttiMs>> \o completedTti(Tail(iterations))
         ELSE completedTti(Tail(iterations))

\* timingScore * successRate rounded to 2 decimals, of a result whose
\* iterations that did not fail all took v: median, p95, p99, min and max of
\* its values are v
expectedScore(v, iterations) ==
    LET metric == IF v >= CEILING_MS THEN Num(0) ELSE ratio(100 * (CEILING_MS - v), CEILING_MS)
        rate == ratio(Len(completedTti(iterations)), Len(iterations))
        scaled == times(times(metric, rate), Num(100))
    IN  ratio((2 * scaled[1] + scaled[2]) \div (2 * scaled[2]), 100)

\* C17: every non-skipped result of runBenchmark with a successful iteration
\* is given a compositeScore that is a number within 0..100, and the weighted
\* sum of the scores of median, p95, p99, min and max of its successful TTI
\* values times successRate, rounded to 2 decimals
C17_CompositeScoreDefined ==
    scorePc = "scored" =>
        \A k \in 1..Len(providers) :
            LET r == providers[k]
                values == completedTti(r.iterations)
            IN  (unscored(r) \in RunResults /\ ~r.skipped /\ values # <<>>) =>
                    /\ ~isNaN(r.compositeScore)
                    /\ atLeast(r.compositeScore, Num(0))
                    /\ atLeast(Num(100), r.compositeScore)
                    /\ (\A n \in 1..Len(values) : values[n] = values[1]) =>
                           r.compositeScore = expectedScore(values[1], r.iterations)

\* C18: successRate is the number of samples without an error over the
\* number of samples, 0 for a skipped result or one without samples; it lies
\* within 0..1 and the sample of a failed iteration never counts as
\* successful
C18_SuccessRate ==
    scorePc = "scored" =>
        \A k \in 1..Len(providers) :
            LET r == providers[k]
                n == Len(r.iterations)
            IN  /\ r.successRate = IF r.skipped \/ n = 0 THEN Num(0)
                                   ELSE ratio(Len(completedTti(r.iterations)), n)
                /\ atLeast(r.successRate, Num(0))
                /\ atLeast(Num(1), r.successRate)

\* C19: a result that is skipped or whose success rate is 0 is given
\* compositeScore 0 and successRate 0, whatever its summary statistics hold:
\* the weighted timing score does not enter
C19_SkippedOrNeverSuccessfulScoresZero ==
    scorePc = "scored" =>
        \A k \in 1..Len(providers) :
            LET r == providers[k]
            IN  (r.skipped \/ computeSuccessRate(unscored(r)) = Num(0)) =>
                    /\ r.compositeScore = Num(0)
                    /\ r.successRate = Num(0)

\* scored: a skipped result with a successful sample and statistics of 300 ms,
\* and a result never successful whose statistics (7 ms, no percentiles)
\* have no timing score
C19_Witness ==
    /\ scorePc = "scored"
    /\ \E k \in 1..Len(providers) :
          /\ providers[k].skipped
          /\ providers[k].summary.ttiMs.median = Num(300)
          /\ \E n \in 1..Len(providers[k].iterations) :
                providers[k].iterations[n].error = None
          /\ providers[k].compositeScore = Num(0)
    /\ \E k \in 1..Len(providers) :
          /\ ~providers[k].skipped
          /\ Len(providers[k].iterations) > 0
          /\ providers[k].summary.ttiMs.median = Num(7)
          /\ isNaN(computeTimingScore(providers[k].summary.ttiMs, DEFAULT_WEIGHTS))
          /\ providers[k].compositeScore = Num(0)

\* the list sortByCompositeScore returned is a permutation of its input with
\* the non-skipped results first, no result before one of a larger
\* compositeScore (a missing one read as 0), and the skipped results in the
\* order they came in
RankedAsClaimed ==
    LET out == ranked[1]
        at(a) == providers[out[a]]
    IN  /\ Len(out) = Len(providers)
        /\ {out[a] : a \in 1..Len(out)} = 1..Len(providers)
        /\ \A a, b \in 1..Len(out) :
              a < b =>
                 /\ at(a).skipped => at(b).skipped
                 /\ (~at(a).skipped /\ ~at(b).skipped) =>
                        ~less(scoreOrZero(at(a)), scoreOrZero(at(b)))
                 /\ (at(a).skipped /\ at(b).skipped) => out[a] < out[b]

\* C20: sortByCompositeScore returns a new list and leaves its input as it
\* was; the list is a permutation of the input, non-skipped results before
\* skipped ones, non-skipped ones in non-increasing compositeScore order
\* (missing read as 0), skipped ones in their original order
C20_SortedByCompositeScore ==
    [][Sort => (providers' = providers /\ RankedAsClaimed')]_vars

\* the same of lists none of whose scores is NaN
C20_SortedWhenScoresAreNumbers ==
    [][(Sort /\ \A k \in 1..Len(providers) : ~isNaN(scoreOrZero(providers[k])))
          => (providers' = providers /\ RankedAsClaimed')]_vars

\* the lists a provider's result is scored in, for comparison
OtherLists == listsUpTo(2)

\* C21: the successRate and compositeScore a provider is given depend on its
\* own result and the weights alone: in whatever list the same result is
\* scored, it is given the same values
C21_ScoreIndependentOfOthers ==
    scorePc = "scored" =>
        \A k \in 1..Len(providers) :
            \A other \in OtherLists :
                \A n \in 1..Len(other) :
                    other[n] = unscored(providers[k]) =>
                        LET there == computeCompositeScores(other, DEFAULT_WEIGHTS)[n]
                        IN  /\ there.successRate = providers[k].successRate
                            /\ there.compositeScore = providers[k].compositeScore

\* scored: a result of score 40 in a list with a result of score 90, and
\* twice in that list
C21_Witness ==
    /\ scorePc = "scored"
    /\ \E k, n, m \in 1..Len(providers) :
          /\ k # n
          /\ unscored(providers[k]) = unscored(providers[n])
          /\ providers[k].compositeScore = Num(40)
          /\ providers[n].compositeScore = Num(40)
          /\ providers[m].compositeScore = Num(90)

----------------------------------------------------------------------------
(* Properties of scoreMetric, checked under SpecMetric                      *)

\* C22: scoreMetric(v) is max(0, 100 * (1 - v / 10000)) for a non-negative
\* v: 100 at 0, 50 at 5000, 0 at 10000 and above, within 0..100, and never
\* larger than at a smaller v
C22_ScoreMetric ==
    metricValue # None =>
        LET v == metricInput
            m == metricValue[1]
        IN  /\ m = IF v[1] >= 10000 * v[2] THEN Num(0)
                   ELSE ratio(100 * (10000 * v[2] - v[1]), 10000 * v[2])
            /\ v = Num(0) => m = Num(100)
            /\ v = Num(5000) => m = Num(50)
            /\ atLeast(v, Num(10000)) => m = Num(0)
            /\ atLeast(m, Num(0))
            /\ atLeast(Num(100), m)
            /\ \A w \in MetricInputs : less(w, v) => atLeast(scoreMetric(w), m)

\* scoreMetric returned 0 for 20000 ms, a value above the ceiling
C22_Witness ==
    /\ metricInput = Num(20000)
    /\ metricValue = Some(Num(0))

----------------------------------------------------------------------------
(* Properties of computeStats, checked under SpecStats                      *)

\* the k-th smallest of the values, counted with repetitions
kthSmallest(values, k) ==
    CHOOSE v \in {values[n] : n \in 1..Len(values)} :
        /\ Cardinality({n \in 1..Len(values) : values[n] < v}) < k
        /\ k <= Cardinality({n \in 1..Len(values) : values[n] <= v})

\* the statistics returned are min, max, mean and median of the values
StatsAsClaimed ==
    LET n == Len(timings)
        st == timingStats[1]
        smallest == kthSmallest(timings, 1)
        largest == kthSmallest(timings, n)
        middle == IF n % 2 = 1 THEN Num(kthSmallest(timings, (n + 1) \div 2))
                  ELSE ratio(kthSmallest(timings, n \div 2)
                             + kthSmallest(timings, n \div 2 + 1), 2)
    IN  /\ st.min = Num(smallest)
        /\ st.max = Num(largest)
        /\ \A k \in 1..n : smallest <= timings[k] /\ timings[k] <= largest
        /\ st.avg = ratio(sum(timings), n)
        /\ st.median = middle
        /\ atLeast(st.median, st.min) /\ atLeast(st.max, st.median)
        /\ atLeast(st.avg, st.min) /\ atLeast(st.max, st.avg)
        /\ timings = <<100, 200, 300, 400>> =>
               st = [min |-> Num(100), max |-> Num(400), median |-> Num(250),
                     avg |-> Num(250)]

\* C23: for a non-empty list computeStats returns the smallest value as min,
\* the largest as max, the mean as avg and the middle value of the ascending
\* order (the mean of the two central ones for an even length) as median,
\* whatever the order of the list, which it leaves as it was; so
\* min <= median <= max and min <= avg <= max
C23_ComputeStats ==
    [][ApplyComputeStats => (timings' = timings /\ StatsAsClaimed')]_vars

\* computeStats returned for a list that is not in ascending order and has an
\* even length and two different central values
C23_Witness ==
    /\ timingStats # None
    /\ timings = <<400, 100, 300, 200>>
    /\ timingStats[1].median = Num(250)

====
